---- MODULE Spec2Model ----
(***************************************************************************)
(* Processing coordinator of the RFI detection engine (RFIDetector):       *)
(* process_recording_async / _process_recording, the entry points that     *)
(* call it (upload_file, AudioFileHandler.process_new_file,                *)
(* RealtimeFileMonitor._process_new_file), the queue rows, the committed   *)
(* detections and the socketio events it emits.                            *)
(*                                                                         *)
(* Two applications ship the coordinator.  "root" is src/rfi_detector.py   *)
(* with src/routes.py and src/file_monitor.py (no socketio events);        *)
(* "SDRSCI" is src/SDRSCI/services/rfi_detector.py with src/SDRSCI/routes  *)
(* and services/realtime_monitor.py (with socketio events).                *)
(***************************************************************************)
EXTENDS Integers, Sequences, FiniteSets, TLC

\* ---------------------------------------------------------------- bounds
MaxRuns == 2
MaxDetections == 10

\* ------------------------------------------------------ program constants
\* `if detection_count % 10 == 0` : a detection_progress event every 10 adds
ProgressEvery == 10

\* Every entry point starts one run for the recording it creates.
RecIds == 1..MaxRuns
RunIds == 1..MaxRuns
Apps == {"root", "SDRSCI"}
\* Who calls process_recording_async.
Callers == {"upload_file", "process_new_file", "_process_new_file", "api"}
\* RFIDetector instances, each with its own processing_lock: the module-level
\* rfi_detector of routes.py, the rfi_detector of the RealtimeFileMonitor, and
\* the detector file_monitor.py constructs for every file (named by its run).
Instances == {<<"routes", 0>>, <<"monitor", 0>>} \cup {<<"file", i>> : i \in RunIds}
\* Sizes of the detection lists the detection stage is asked to produce.
DetectionCounts == {0, 1, MaxDetections}

VARIABLES
    app,        \* which application this process is
    recs,       \* Recording table (committed): id -> row
    queue,      \* ProcessingQueue table (committed): recording id -> row
    dets,       \* RFIDetection table (committed): run -> rows that run's session committed
    runs,       \* the threads started by process_recording_async
    lock,       \* processing_lock of every RFIDetector instance: 0 or the holding run
    events,     \* what the notification collaborator has received, in order,
                \* for every recording_id the payloads name
    propagated, \* callers an exception of a run has propagated to
    call        \* the analysis function under study, its arguments and results
                \* (the coordinator never touches it)

vars == <<app, recs, queue, dets, runs, lock, events, propagated, call>>
\* The coordinator's part of the state.
coordinator == <<app, recs, queue, dets, runs, lock, events, propagated>>

NoRecording == [exists |-> FALSE, readable |-> FALSE, processed |-> FALSE, rfi_detected |-> FALSE]
NoJob == [status |-> "none", error |-> FALSE, completed_at |-> FALSE]
\* No analysis function has been called.
NoCall == [op |-> "none"]
NoRun ==
    [pc |-> "none", rec |-> 0, inst |-> <<"routes", 0>>, ctx |-> "thread", queue_item |-> FALSE,
     n |-> 0, count |-> 0, pending |-> 0, exc |-> "none", loadErr |-> FALSE,
     detErr |-> FALSE, outcome |-> "none"]

\* Positions of a thread inside `with self.processing_lock:`.
InsidePcs ==
    {"start", "emit_started", "analyze", "save",
     "emit_completed", "handler", "emit_failed", "return", "raise"}
EndedPcs == {"done", "crashed"}

\* The SDRSCI coordinator emits socketio events, the root one has none.
HasEmits(a) == a = "SDRSCI"

Min(a, b) == IF a < b THEN a ELSE b

nRuns == Cardinality({i \in RunIds : runs[i].pc # "none"})
nRecs == Cardinality({r \in RecIds : recs[r].exists})

Init ==
    /\ app \in Apps
    /\ recs = [r \in RecIds |-> NoRecording]
    /\ queue = [r \in RecIds |-> NoJob]
    /\ dets = [i \in RunIds |-> 0]
    /\ runs = [i \in RunIds |-> NoRun]
    /\ lock = [l \in Instances |-> 0]
    /\ events = [r \in RecIds |-> <<>>]
    /\ propagated = {}
    /\ call = NoCall

\* ------------------------------------------------ process_recording_async
\* threading.Thread(target=self._process_recording, ...).start(): the run
\* executes on a thread of its own, whoever the caller is.
RunContextInline(caller) == caller
RunContext(caller) == "thread"

\* The state of `runs` after process_recording_async(recording_id) on detector
\* instance inst: one more thread, about to enter `with self.processing_lock`.
process_recording_async(inst, r, caller) ==
    LET i == nRuns + 1
    IN  [runs EXCEPT ![i] = [NoRun EXCEPT !.pc = "lock", !.rec = r,
                                          !.inst = IF inst = "file" THEN <<inst, i>> ELSE <<inst, 0>>,
                                          !.ctx = RunContext(caller)]]

\* The rows an entry point commits before it enqueues: the Recording and its
\* ProcessingQueue row (status defaults to 'pending').
NewRecording(r, readable) ==
    /\ recs' = [recs EXCEPT ![r] = [exists |-> TRUE, readable |-> readable,
                                    processed |-> FALSE, rfi_detected |-> FALSE]]
    /\ queue' = [queue EXCEPT ![r] = [status |-> "pending", error |-> FALSE,
                                      completed_at |-> FALSE]]

\* POST /upload
upload_file ==
    /\ nRuns < MaxRuns
    /\ \E readable \in BOOLEAN : NewRecording(nRecs + 1, readable)
    /\ runs' = process_recording_async("routes", nRecs + 1, "upload_file")
    /\ UNCHANGED <<call, app, dets, lock, events, propagated>>

\* file_monitor.py: a new RFIDetector() for every detected file
process_new_file ==
    /\ app = "root"
    /\ nRuns < MaxRuns
    /\ \E readable \in BOOLEAN : NewRecording(nRecs + 1, readable)
    /\ runs' = process_recording_async("file", nRecs + 1, "process_new_file")
    /\ UNCHANGED <<call, app, dets, lock, events, propagated>>

\* realtime_monitor.py: the monitor's own RFIDetector
_process_new_file ==
    /\ app = "SDRSCI"
    /\ nRuns < MaxRuns
    /\ \E readable \in BOOLEAN : NewRecording(nRecs + 1, readable)
    /\ runs' = process_recording_async("monitor", nRecs + 1, "_process_new_file")
    /\ UNCHANGED <<call, app, dets, lock, events, propagated>>

\* process_recording_async called on the module-level detector with any id:
\* the enqueue entry point takes a recording id and checks nothing.
Enqueue(r) ==
    /\ nRuns < MaxRuns
    /\ runs' = process_recording_async("routes", r, "api")
    /\ UNCHANGED <<call, app, recs, queue, dets, lock, events, propagated>>

\* ------------------------------------------------------ _process_recording
\* `with self.processing_lock:` entered (threading.Lock: one holder).
AcquireUnlocked(i) ==
    /\ runs[i].pc = "lock"
    /\ lock' = [lock EXCEPT ![runs[i].inst] = i]
    /\ runs' = [runs EXCEPT ![i].pc = "start"]
    /\ UNCHANGED <<call, app, recs, queue, dets, events, propagated>>
Acquire(i) ==
    /\ runs[i].pc = "lock"
    /\ lock[runs[i].inst] = 0
    /\ lock' = [lock EXCEPT ![runs[i].inst] = i]
    /\ runs' = [runs EXCEPT ![i].pc = "start"]
    /\ UNCHANGED <<call, app, recs, queue, dets, events, propagated>>

\* Leaving the `with` block, by return or by an exception: the lock of the
\* run's detector is released either way.
LockAfterExitLeaky(l, inst, how) == IF how = "crashed" THEN l ELSE [l EXCEPT ![inst] = 0]
LockAfterExit(l, inst, how) == [l EXCEPT ![inst] = 0]

\* The thread leaves `with self.processing_lock:` and ends, by the function
\* returning (pc "return") or by an exception nothing catches (pc "raise").
\* The exception reaches whoever executes the run; on a thread of its own
\* that is nobody.  What is left of the run is where it ran and how it ended.
Leave(i) ==
    /\ runs[i].pc \in {"return", "raise"}
    /\ LET how == IF runs[i].pc = "return" THEN "done" ELSE "crashed"
       IN  /\ runs' = [runs EXCEPT ![i] = [NoRun EXCEPT !.pc = how, !.rec = runs[i].rec,
                                                        !.inst = runs[i].inst,
                                                        !.ctx = runs[i].ctx]]
           /\ lock' = LockAfterExit(lock, runs[i].inst, how)
           /\ propagated' = IF how = "crashed" /\ runs[i].ctx # "thread"
                            THEN propagated \cup {runs[i].ctx} ELSE propagated
    /\ UNCHANGED <<call, app, recs, queue, dets, events>>

\* queue_item = ProcessingQueue.query.filter_by(...).first(); if queue_item:
\* status = 'processing'; commit
Start(i) ==
    /\ runs[i].pc = "start"
    /\ LET r == runs[i].rec
           found == queue[r].status # "none"
       IN  /\ queue' = IF found THEN [queue EXCEPT ![r].status = "processing"] ELSE queue
           /\ runs' = [runs EXCEPT ![i].queue_item = found,
                                   ![i].pc = IF found /\ HasEmits(app)
                                             THEN "emit_started" ELSE "analyze"]
    /\ UNCHANGED <<call, app, recs, dets, lock, events, propagated>>

\* The collaborator's record once run i's socketio.emit of event `name`
\* (payload: recording_id) is delivered.
Received(i, name) == [events EXCEPT ![runs[i].rec] = Append(@, name)]

\* socketio.emit(name, ...) inside the try block: delivered, or it raises and
\* the except handler runs.
Emit(i, name, ok, nextpc) ==
    /\ events' = IF ok THEN Received(i, name) ELSE events
    /\ runs' = [runs EXCEPT ![i].pc = IF ok THEN nextpc ELSE "handler",
                            ![i].exc = IF ok THEN @ ELSE "emit"]

EmitStarted(i) ==
    /\ runs[i].pc = "emit_started"
    /\ \E ok \in BOOLEAN : Emit(i, "Started", ok, "analyze")
    /\ UNCHANGED <<call, app, recs, queue, dets, lock, propagated>>

\* _detect_rfi_patterns_fast / _detect_rfi_patterns_complex: `detections = []`
\* is bound before the try block and returned after it.  produced: candidates
\* appended when the stage stopped; kept: what _filter_nearby_detections would
\* keep of them; raised: the stage stopped by an exception (caught and logged),
\* so the filtered list was never assigned.
_detect_rfi_patterns(produced, kept, raised) == IF raised THEN produced ELSE kept

\* _analyze_audio_file / _analyze_raw_data: a file that cannot be read or
\* parsed raises inside the try block, which logs and returns [].
_analyze_audio_file(readable, produced, kept, raised) ==
    IF readable THEN _detect_rfi_patterns(produced, kept, raised) ELSE 0

\* Recording.query.get(recording_id) returned a row (`if not recording: raise`).
RecordingFound(rec) == rec.exists

\* recording = Recording.query.get(recording_id); if not recording: raise
\* ValueError; detections = self._analyze_audio_file(recording.file_path,
\* recording).  The analysis reads the file and touches nothing shared.
Analyze(i) ==
    /\ runs[i].pc = "analyze"
    /\ IF ~RecordingFound(recs[runs[i].rec])
       THEN runs' = [runs EXCEPT ![i].pc = "handler", ![i].exc = "not_found"]
       ELSE \E produced \in DetectionCounts, raised \in BOOLEAN :
              \E kept \in {k \in DetectionCounts : k <= produced /\ (k = 0 <=> produced = 0)} :
                LET readable == recs[runs[i].rec].readable
                IN  runs' = [runs EXCEPT
                        ![i].n = _analyze_audio_file(readable, produced, kept, raised),
                        ![i].loadErr = ~readable,
                        ![i].detErr = readable /\ raised,
                        ![i].pc = "save"]
    /\ UNCHANGED <<call, app, recs, queue, dets, lock, events, propagated>>

\* for detection_data in detections: db.session.add(detection);
\* detection_count += 1; every 10th add emits detection_progress.  One step
\* is the adds up to and including the next emit (the adds touch only the
\* thread's own session).
Save(i) ==
    /\ runs[i].pc = "save"
    /\ runs[i].count < runs[i].n
    /\ LET c == runs[i].count
           step == Min(runs[i].n - c, ProgressEvery - (c % ProgressEvery))
           emits == HasEmits(app) /\ (c + step) % ProgressEvery = 0
           added == [runs[i] EXCEPT !.count = c + step, !.pending = @ + step]
       IN  \E ok \in (IF emits THEN BOOLEAN ELSE {TRUE}) :
             /\ events' = IF emits /\ ok THEN Received(i, "Progress") ELSE events
             /\ runs' = [runs EXCEPT ![i] =
                           IF ok THEN added
                           ELSE [added EXCEPT !.pc = "handler", !.exc = "emit"]]
    /\ UNCHANGED <<call, app, recs, queue, dets, lock, propagated>>

\* recording.rfi_detected = len(detections) > 0
rfi_detectedAlways(n) == TRUE
rfi_detected(n) == n > 0

\* The payload of the processing_completed event of a run.
processing_completed(run) ==
    [recording_id |-> run.rec, detections_found |-> run.count, rfi_detected |-> rfi_detected(run.n)]

\* recording.processed = True ... queue_item.status = 'completed';
\* queue_item.completed_at = datetime.utcnow();
\* db.session.commit(): everything the session holds is committed at once.
Finish(i) ==
    /\ runs[i].pc = "save"
    /\ runs[i].count = runs[i].n
    /\ LET r == runs[i].rec
           run == [runs[i] EXCEPT !.pending = 0, !.outcome = "completed"]
       IN  /\ recs' = [recs EXCEPT ![r].processed = TRUE, ![r].rfi_detected = rfi_detected(runs[i].n)]
           /\ queue' = IF runs[i].queue_item
                       THEN [queue EXCEPT ![r].status = "completed",
                                          ![r].completed_at = TRUE]
                       ELSE queue
           /\ dets' = [dets EXCEPT ![i] = @ + runs[i].pending]
           /\ runs' = [runs EXCEPT ![i] =
                         [run EXCEPT !.pc = IF HasEmits(app) THEN "emit_completed" ELSE "return"]]
    /\ UNCHANGED <<call, app, lock, events, propagated>>

EmitCompleted(i) ==
    /\ runs[i].pc = "emit_completed"
    /\ \E ok \in BOOLEAN : Emit(i, "Completed", ok, "return")
    /\ UNCHANGED <<call, app, recs, queue, dets, lock, propagated>>

\* queue_item.status = 'failed'; queue_item.error_message = str(e);
\* queue_item.completed_at = datetime.utcnow()
MarkFailedSkipped(row) == row
MarkFailedNoMessage(row) == [row EXCEPT !.status = "failed", !.completed_at = TRUE]
MarkFailed(row) == [row EXCEPT !.status = "failed", !.error = TRUE, !.completed_at = TRUE]

\* except Exception as e: the queue row is queried again; if it exists:
\* status = 'failed', error_message = str(e), commit (which commits whatever
\* else the session holds).  Without a row nothing is committed and the
\* session is dropped with the app context.
Handler(i) ==
    /\ runs[i].pc = "handler"
    /\ LET r == runs[i].rec
           found == queue[r].status # "none"
           run == [runs[i] EXCEPT !.pending = 0,
                                  !.outcome = IF found THEN "failed" ELSE @]
       IN  /\ queue' = IF found THEN [queue EXCEPT ![r] = MarkFailed(@)] ELSE queue
           /\ dets' = IF found THEN [dets EXCEPT ![i] = @ + runs[i].pending] ELSE dets
           /\ runs' = [runs EXCEPT ![i] =
                         [run EXCEPT !.pc = IF found /\ HasEmits(app)
                                            THEN "emit_failed" ELSE "return"]]
    /\ UNCHANGED <<call, app, recs, lock, events, propagated>>

\* socketio.emit('processing_failed', ...) inside the except block: if it
\* raises, the exception leaves _process_recording and ends the thread.
EmitFailed(i) ==
    /\ runs[i].pc = "emit_failed"
    /\ \E ok \in BOOLEAN :
         /\ events' = IF ok THEN Received(i, "Failed") ELSE events
         /\ runs' = [runs EXCEPT ![i].pc = IF ok THEN "return" ELSE "raise"]
    /\ UNCHANGED <<call, app, recs, queue, dets, lock, propagated>>

Next ==
    \/ upload_file
    \/ process_new_file
    \/ _process_new_file
    \/ \E i \in RunIds : Acquire(i)
    \/ \E i \in RunIds : Start(i)
    \/ \E i \in RunIds : EmitStarted(i)
    \/ \E i \in RunIds : Analyze(i)
    \/ \E i \in RunIds : Save(i)
    \/ \E i \in RunIds : Finish(i)
    \/ \E i \in RunIds : EmitCompleted(i)
    \/ \E i \in RunIds : Handler(i)
    \/ \E i \in RunIds : EmitFailed(i)
    \/ \E i \in RunIds : Leave(i)

\* The application: the coordinator with the entry points that call it.
Spec == Init /\ [][Next]_vars

\* The coordinator as a library: process_recording_async is also called
\* directly, with any recording id and any number of times.
NextApi ==
    \/ Next
    \/ \E r \in RecIds : Enqueue(r)

SpecApi == Init /\ [][NextApi]_vars

\* ======================================================== analysis functions
\* A detection is [timestamp, frequency, power_level]: timestamp in
\* milliseconds, frequency in Hz, power_level in dB.  The two applications
\* ship different versions of the functions; `a` names the application.
Abs(x) == IF x < 0 THEN -x ELSE x

\* time_diff < 0.1 (seconds), here in milliseconds
time_threshold == 100
\* SDRSCI: `freq_diff < 1000`; root: the default freq_threshold=10000
freq_threshold(a) == IF a = "SDRSCI" THEN 1000 ELSE 10000
\* SDRSCI: `if len(filtered) >= 50: break`; the root version has no limit
MaxFiltered == 50
has_limit(a) == a = "SDRSCI"

\* list.sort(key=power_level, reverse=True) is stable: detection j comes
\* behind every stronger detection and every equally strong one that came
\* before it in the list.
Before(xs, i, j) ==
    \/ xs[i].power_level > xs[j].power_level
    \/ xs[i].power_level = xs[j].power_level /\ i < j

\* ... and every equally strong one that came after it: what an ascending
\* sort followed by a reversal would give.
BeforeReversed(xs, i, j) ==
    \/ xs[i].power_level > xs[j].power_level
    \/ xs[i].power_level = xs[j].power_level /\ i > j

\* detections.sort(key=lambda x: x['power_level'], reverse=True): the
\* detection with r - 1 detections before it is at place r.
SortByPowerUnstable(xs) ==
    LET n == Len(xs)
        before == SubSeq([j \in 1..n |-> Cardinality({i \in 1..n : BeforeReversed(xs, i, j)})], 1, n)
    IN  SubSeq([r \in 1..n |-> xs[CHOOSE j \in 1..n : before[j] = r - 1]], 1, n)
SortByPowerSkipped(xs) == xs
SortByPower(xs) ==
    LET n == Len(xs)
        before == SubSeq([j \in 1..n |-> Cardinality({i \in 1..n : Before(xs, i, j)})], 1, n)
    IN  SubSeq([r \in 1..n |-> xs[CHOOSE j \in 1..n : before[j] = r - 1]], 1, n)

\* time_diff < time_threshold and freq_diff < freq_threshold, against any
\* detection already in `filtered`
too_closeTimeOnly(a, detection, filtered) ==
    \E j \in 1..Len(filtered) :
      Abs(detection.timestamp - filtered[j].timestamp) < time_threshold
too_close(a, detection, filtered) ==
    \E j \in 1..Len(filtered) :
      /\ Abs(detection.timestamp - filtered[j].timestamp) < time_threshold
      /\ Abs(detection.frequency - filtered[j].frequency) < freq_threshold(a)

\* The body of `for detection in detections` for detections[k]: append it
\* unless it is too close; SDRSCI leaves the loop after the append that
\* makes len(filtered) >= 50, so nothing is appended from then on.
filter_step(a, detections, k, filtered) ==
    IF (has_limit(a) /\ Len(filtered) >= MaxFiltered) \/ too_close(a, detections[k], filtered)
    THEN filtered
    ELSE Append(filtered, detections[k])

\* The loop over detections[lo..hi] in order, starting with `filtered`
\* (evaluated by halves; the second half is not entered once the loop was
\* left).
RECURSIVE filter_loop(_, _, _, _, _)
filter_loop(a, detections, lo, hi, filtered) ==
    IF lo > hi THEN filtered
    ELSE IF lo = hi THEN filter_step(a, detections, lo, filtered)
    ELSE LET mid == (lo + hi) \div 2
             first_half == filter_loop(a, detections, lo, mid, filtered)
         IN  IF Len(first_half) >= MaxFiltered /\ has_limit(a)
             THEN first_half
             ELSE filter_loop(a, detections, mid + 1, hi, first_half)

_filter_nearby_detections(a, detections) ==
    IF detections = <<>> THEN detections
    ELSE LET sorted == SortByPower(detections)
         IN  filter_loop(a, sorted, 1, Len(sorted), <<>>)

\* ------------------------------------------------- the deduplicator's inputs
MaxLen == 3

Timestamps == {0, 50, 100}
Frequencies == {0, 5000}
Powers == {-30, -20, -10}
Detections ==
    {[timestamp |-> t, frequency |-> f, power_level |-> p] :
       t \in Timestamps, f \in Frequencies, p \in Powers}

SeqsUpTo(S, n) == UNION {[1..k -> S] : k \in 0..n}

\* k detections one second apart, power levels repeating with period m:
\* lists long enough for the limit of 50.
Spread(k, m) ==
    [j \in 1..k |-> [timestamp |-> 1000 * j, frequency |-> 0, power_level |-> -(j % m)]]
LongLists == {Spread(k, m) : k \in {MaxFiltered, MaxFiltered + 1}, m \in {3, MaxFiltered + 1}}

DetectionLists == SeqsUpTo(Detections, MaxLen) \cup LongLists

Reverse(xs) == [j \in 1..Len(xs) |-> xs[Len(xs) + 1 - j]]
\* The orders one list can come in.
Orders(xs) ==
    IF Len(xs) <= MaxLen
    THEN {[j \in 1..Len(xs) |-> xs[f[j]]] :
            f \in {g \in [1..Len(xs) -> 1..Len(xs)] : \A i, j \in 1..Len(xs) : i # j => g[i] # g[j]}}
    ELSE {xs, Reverse(xs)}

InitEngine(c) ==
    /\ app \in Apps
    /\ recs = [r \in RecIds |-> NoRecording]
    /\ queue = [r \in RecIds |-> NoJob]
    /\ dets = [i \in RunIds |-> 0]
    /\ runs = [i \in RunIds |-> NoRun]
    /\ lock = [l \in Instances |-> 0]
    /\ events = [r \in RecIds |-> <<>>]
    /\ propagated = {}
    /\ call = c

InitFilter == \E xs \in DetectionLists : InitEngine([op |-> "detections", detections |-> xs])

\* filtered = self._filter_nearby_detections(detections)
Filter ==
    /\ call.op = "detections"
    /\ call' = [op |-> "filtered", detections |-> call.detections,
                filtered |-> _filter_nearby_detections(app, call.detections)]
    /\ UNCHANGED coordinator

\* The function applied to its own result.
Refilter ==
    /\ call.op = "filtered"
    /\ call' = [op |-> "refiltered", detections |-> call.detections,
                filtered |-> call.filtered,
                refiltered |-> _filter_nearby_detections(app, call.filtered)]
    /\ UNCHANGED coordinator

\* The function applied to the same detections in another order.
FilterReordered ==
    /\ call.op = "filtered"
    /\ \E ys \in Orders(call.detections) :
         call' = [op |-> "reordered", detections |-> call.detections,
                  filtered |-> call.filtered, reordered |-> ys,
                  filtered_reordered |-> _filter_nearby_detections(app, ys)]
    /\ UNCHANGED coordinator

NextFilter ==
    \/ Filter
    \/ Refilter
    \/ FilterReordered

SpecFilter == InitFilter /\ [][NextFilter]_vars

\* ------------------------------------------------------ the detection scans
\* `for i in range(0, len(peak_indices[0]), 5)`
SampleEvery == 5
\* `if len(detections) > 100: ... detections = detections[:100]`
MaxCandidates == 100
\* `if detection_count > 200: break` (SDRSCI; the root scan has no limit)
ScanLimit == 200
has_scan_limit(a) == a = "SDRSCI"

\* The cells of the spectrogram above the threshold, in the order the scan
\* meets them (np.where order on the real path, time-major on the complex
\* path), each with the timestamp, frequency and power_level of the
\* detection the scan makes of it.
\* Real path: every 5th cell becomes a detection.
sampled(cells) ==
    LET n == (Len(cells) + SampleEvery - 1) \div SampleEvery
    IN  SubSeq([j \in 1..n |-> cells[SampleEvery * (j - 1) + 1]], 1, n)

\* if len(detections) > 100: sort by power, strongest first, keep 100
limited(detections) ==
    IF Len(detections) > MaxCandidates
    THEN SubSeq(SortByPower(detections), 1, MaxCandidates)
    ELSE detections

\* _detect_rfi_patterns_fast: what is appended, what is handed to
\* _filter_nearby_detections, what is returned.
_detect_rfi_patterns_fast(a, cells) ==
    [appended |-> sampled(cells),
     candidates |-> limited(sampled(cells)),
     detections |-> _filter_nearby_detections(a, limited(sampled(cells)))]

\* Complex path: every cell above the threshold is appended and counted; the
\* SDRSCI scan leaves both loops after the append that makes
\* detection_count > 200.
scanned(a, cells) ==
    IF has_scan_limit(a) /\ \E k \in 1..Len(cells) : k > ScanLimit
    THEN SubSeq(cells, 1, CHOOSE k \in 1..Len(cells) :
                            k > ScanLimit /\ \A j \in 1..(k - 1) : ~(j > ScanLimit))
    ELSE cells

_detect_rfi_patterns_complex(a, cells) ==
    [appended |-> scanned(a, cells),
     candidates |-> scanned(a, cells),
     detections |-> _filter_nearby_detections(a, scanned(a, cells))]

\* Numbers of cells above the threshold: a few, and around the limits.
CellCounts ==
    (0..MaxLen)
      \cup {SampleEvery, SampleEvery + 1}
      \cup {SampleEvery * MaxFiltered + d : d \in {0, 1, SampleEvery, SampleEvery + 1}}
      \cup {SampleEvery * MaxCandidates + d : d \in {0, 1, SampleEvery, SampleEvery + 1}}
      \cup {ScanLimit + d : d \in {-1, 0, 1, 2}}
CellLists == {Spread(k, m) : k \in CellCounts, m \in {1, 7}}

InitScan ==
    \E path \in {"real", "complex"}, cells \in CellLists :
      InitEngine([op |-> "cells", path |-> path, cells |-> cells])

DetectFast ==
    /\ call.op = "cells"
    /\ call.path = "real"
    /\ call' = [op |-> "_detect_rfi_patterns_fast", path |-> call.path, cells |-> call.cells,
                result |-> _detect_rfi_patterns_fast(app, call.cells)]
    /\ UNCHANGED coordinator

DetectComplex ==
    /\ call.op = "cells"
    /\ call.path = "complex"
    /\ call' = [op |-> "_detect_rfi_patterns_complex", path |-> call.path, cells |-> call.cells,
                result |-> _detect_rfi_patterns_complex(app, call.cells)]
    /\ UNCHANGED coordinator

NextScan ==
    \/ DetectFast
    \/ DetectComplex

SpecScan == InitScan /\ [][NextScan]_vars

\* ------------------------------------------------------- bandwidth estimate
\* Sequences are indexed from 1 here and from 0 in the code: frequencies[1]
\* and frequencies[0] of the code are frequencies[2] and frequencies[1] here.
\* SDRSCI: threshold = peak_power - 3.0; root: peak_power - 6
bandwidth_drop(a) == IF a = "SDRSCI" THEN 3 ELSE 6
\* the default when there are no two frequency bins (1000.0, 1000)
FallbackBandwidth == 1000

Max(a, b) == IF a > b THEN a ELSE b

\* while left_idx > 0 and power_spectrum[left_idx] > threshold: left_idx -= 1
RECURSIVE walk_left(_, _, _)
walk_left(power_spectrum, threshold, left_idx) ==
    IF left_idx > 1 /\ power_spectrum[left_idx] > threshold
    THEN walk_left(power_spectrum, threshold, left_idx - 1)
    ELSE left_idx

\* while right_idx < len(power_spectrum) - 1 and power_spectrum[right_idx] >
\* threshold: right_idx += 1
RECURSIVE walk_right(_, _, _)
walk_right(power_spectrum, threshold, right_idx) ==
    IF right_idx < Len(power_spectrum) /\ power_spectrum[right_idx] > threshold
    THEN walk_right(power_spectrum, threshold, right_idx + 1)
    ELSE right_idx

\* A walk that looks at the neighbour before it moves onto it, and no single
\* bin width when the walk did not move.
_estimate_bandwidthInner(a, power_spectrum, peak_idx, frequencies) ==
    LET threshold == power_spectrum[peak_idx] - bandwidth_drop(a)
        inner_left == CHOOSE l \in 1..peak_idx :
                        /\ \A k \in l..peak_idx : power_spectrum[k] > threshold
                        /\ l > 1 => ~(power_spectrum[l - 1] > threshold)
        inner_right == CHOOSE r \in peak_idx..Len(power_spectrum) :
                         /\ \A k \in peak_idx..r : power_spectrum[k] > threshold
                         /\ r < Len(power_spectrum) => ~(power_spectrum[r + 1] > threshold)
    IN  Abs(frequencies[inner_right] - frequencies[inner_left])

\* SDRSCI: |frequencies[right] - frequencies[left]| if the walk moved, else
\* |frequencies[1] - frequencies[0]|, which raises IndexError with a single
\* bin and lands in the except clause: the bin width if there are two bins,
\* else 1000.0.  Root: the number of bins walked times the bin width, at
\* least one bin width; the bin width or 1000 if the walk did not move.
_estimate_bandwidth(a, power_spectrum, peak_idx, frequencies) ==
    LET threshold == power_spectrum[peak_idx] - bandwidth_drop(a)
        left_idx == walk_left(power_spectrum, threshold, peak_idx)
        right_idx == walk_right(power_spectrum, threshold, peak_idx)
        single_bin == IF Len(frequencies) > 1
                      THEN Abs(frequencies[2] - frequencies[1]) ELSE FallbackBandwidth
    IN  IF right_idx > left_idx
        THEN IF a = "SDRSCI"
             THEN Abs(frequencies[right_idx] - frequencies[left_idx])
             ELSE LET freq_resolution == IF Len(frequencies) > 1
                                         THEN frequencies[2] - frequencies[1] ELSE 1
                  IN  Max((right_idx - left_idx) * Abs(freq_resolution), Abs(freq_resolution))
        ELSE single_bin

\* Real path: window_size = min(2048, len(audio_data) // 4) and
\* bandwidth = sample_rate / window_size (the sample rates drawn are
\* multiples of the window sizes, so the quotient is exact).
FastWindow == 2048
window_size(samples) == Min(FastWindow, samples \div 4)
fast_bandwidth(sample_rate, samples) == sample_rate \div window_size(samples)

\* The inputs: power columns of up to MaxBins bins, any peak index, and the
\* frequency axis np.fft.fftshift(np.fft.fftfreq(n, 1/sample_rate)) of that
\* many bins; buffers and sample rates for the real path.
MaxBins == 4
ColumnPowers == {0, 4, 8}
BinWidths == {500, 2500}
frequency_axis(n, bin) == [k \in 1..n |-> (k - 1 - (n \div 2)) * bin]
SampleRates == {8192, 2048000}
SampleCounts == {4, 8, 4096, 8192, 16384}

InitBandwidth ==
    \/ \E power_spectrum \in SeqsUpTo(ColumnPowers, MaxBins) \ {<<>>}, bin \in BinWidths :
         \E peak_idx \in 1..Len(power_spectrum) :
           InitEngine([op |-> "column", power_spectrum |-> power_spectrum,
                       peak_idx |-> peak_idx,
                       frequencies |-> frequency_axis(Len(power_spectrum), bin)])
    \/ \E sample_rate \in SampleRates, samples \in SampleCounts :
         InitEngine([op |-> "buffer", sample_rate |-> sample_rate, samples |-> samples])

\* bandwidth = self._estimate_bandwidth(spectrogram_db[:, t_idx], f_idx, frequencies)
EstimateBandwidth ==
    /\ call.op = "column"
    /\ call' = [op |-> "_estimate_bandwidth", power_spectrum |-> call.power_spectrum,
                peak_idx |-> call.peak_idx, frequencies |-> call.frequencies,
                bandwidth |-> _estimate_bandwidth(app, call.power_spectrum, call.peak_idx,
                                                  call.frequencies)]
    /\ UNCHANGED coordinator

\* bandwidth = sample_rate / window_size, for every detection of the real path
FastBandwidth ==
    /\ call.op = "buffer"
    /\ call' = [op |-> "fast_bandwidth", sample_rate |-> call.sample_rate,
                samples |-> call.samples,
                bandwidth |-> fast_bandwidth(call.sample_rate, call.samples)]
    /\ UNCHANGED coordinator

NextBandwidth ==
    \/ EstimateBandwidth
    \/ FastBandwidth

SpecBandwidth == InitBandwidth /\ [][NextBandwidth]_vars

\* The coordinator on a store that holds no recording: the store (SQLite by
\* default, foreign keys declared without ondelete and not enforced) may hold
\* a ProcessingQueue row whose Recording row is gone, and
\* process_recording_async takes any id.
InitMissing ==
    /\ app \in Apps
    /\ recs = [r \in RecIds |-> NoRecording]
    /\ queue \in [RecIds -> {NoJob, [NoJob EXCEPT !.status = "pending"]}]
    /\ dets = [i \in RunIds |-> 0]
    /\ runs = [i \in RunIds |-> NoRun]
    /\ lock = [l \in Instances |-> 0]
    /\ events = [r \in RecIds |-> <<>>]
    /\ propagated = {}
    /\ call = NoCall

NextMissing ==
    \/ \E r \in RecIds : Enqueue(r)
    \/ \E i \in RunIds : Acquire(i)
    \/ \E i \in RunIds : Start(i)
    \/ \E i \in RunIds : EmitStarted(i)
    \/ \E i \in RunIds : Analyze(i)
    \/ \E i \in RunIds : Handler(i)
    \/ \E i \in RunIds : EmitFailed(i)
    \/ \E i \in RunIds : Leave(i)

SpecMissing == InitMissing /\ [][NextMissing]_vars

\* One step of the thread of run i.
RunStep(i) ==
    \/ Acquire(i)
    \/ Start(i)
    \/ EmitStarted(i)
    \/ Analyze(i)
    \/ Save(i)
    \/ Finish(i)
    \/ EmitCompleted(i)
    \/ Handler(i)
    \/ EmitFailed(i)
    \/ Leave(i)

\* The application with its threads scheduled fairly: a thread that can take
\* a step (it is not waiting for a lock another thread holds) takes it.
FairSpec == Spec /\ \A i \in RunIds : WF_vars(RunStep(i))


\* ------------------------------------------------------------ the classifiers
\* Frequencies are in kHz here (2500 MHz in Hz is beyond TLC's integers),
\* bandwidths in Hz, powers in dB.
MHz == 1000

\* _classify_interference_fast(frequency, power_level), the same in both
\* applications.  The mutant asks for the power first.
_classify_interference_fastPowerFirst(frequency, power_level) ==
    IF power_level > -20 THEN "strong_local"
    ELSE IF 88 * MHz <= frequency /\ frequency <= 108 * MHz THEN "FM_broadcast"
    ELSE IF 174 * MHz <= frequency /\ frequency <= 216 * MHz THEN "TV_broadcast"
    ELSE IF 470 * MHz <= frequency /\ frequency <= 790 * MHz THEN "UHF_TV"
    ELSE IF 2400 * MHz <= frequency /\ frequency <= 2500 * MHz THEN "WiFi_ISM"
    ELSE IF power_level > -40 THEN "moderate"
    ELSE "weak_signal"
_classify_interference_fast(frequency, power_level) ==
    IF 88 * MHz <= frequency /\ frequency <= 108 * MHz THEN "FM_broadcast"
    ELSE IF 174 * MHz <= frequency /\ frequency <= 216 * MHz THEN "TV_broadcast"
    ELSE IF 470 * MHz <= frequency /\ frequency <= 790 * MHz THEN "UHF_TV"
    ELSE IF 2400 * MHz <= frequency /\ frequency <= 2500 * MHz THEN "WiFi_ISM"
    ELSE IF power_level > -20 THEN "strong_local"
    ELSE IF power_level > -40 THEN "moderate"
    ELSE "weak_signal"

\* _classify_interference(power, bandwidth, frequency) of the root
\* application (src/rfi_detector.py)
classify_root(power, bandwidth, frequency) ==
    IF bandwidth > 100000 THEN "broadband"
    ELSE IF bandwidth < 1000 THEN "narrowband"
    ELSE IF power > -40 THEN "strong_interference"
    ELSE IF 88 * MHz <= frequency /\ frequency <= 108 * MHz THEN "fm_broadcast"
    ELSE IF 535 <= frequency /\ frequency <= 1705 THEN "am_broadcast"
    ELSE IF frequency > 2400 * MHz /\ frequency < 2500 * MHz THEN "wifi"
    ELSE "unknown"

\* _classify_interference(power_level, bandwidth, frequency) of
\* src/SDRSCI/services/rfi_detector.py; bw_khz = bandwidth / 1e3
classify_SDRSCI(power_level, bandwidth, frequency) ==
    IF 88 * MHz <= frequency /\ frequency <= 108 * MHz /\ bandwidth > 150 * 1000 THEN "FM_broadcast"
    ELSE IF 174 * MHz <= frequency /\ frequency <= 216 * MHz THEN "TV_broadcast"
    ELSE IF 2400 * MHz <= frequency /\ frequency <= 2500 * MHz THEN "WiFi_ISM"
    ELSE IF frequency \in {144 * MHz, 432 * MHz, 1296 * MHz} THEN "amateur_radio"
    ELSE IF \/ 800 * MHz <= frequency /\ frequency <= 900 * MHz
            \/ 1800 * MHz <= frequency /\ frequency <= 1900 * MHz THEN "cellular"
    ELSE IF bandwidth < 25 * 1000 THEN "narrowband"
    ELSE IF bandwidth > 100 * 1000 THEN "wideband"
    ELSE "unknown"

\* self._classify_interference(power, bandwidth, freq) as the complex scan
\* of application a calls it
_classify_interference(a, power, bandwidth, frequency) ==
    IF a = "SDRSCI"
    THEN classify_SDRSCI(power, bandwidth, frequency)
    ELSE classify_root(power, bandwidth, frequency)

\* The classifiers' arguments: the edges of every band and of every power
\* and bandwidth class, and values inside and outside.
BandEdges ==
    {535, 1705, 88 * MHz, 108 * MHz, 174 * MHz, 216 * MHz, 470 * MHz, 790 * MHz,
     800 * MHz, 900 * MHz, 2400 * MHz, 2500 * MHz}
ClassifierFrequencies ==
    {0, 1000, 100 * MHz, 144 * MHz, 2450 * MHz} \cup {e + d : e \in BandEdges, d \in {-1, 0, 1}}
ClassifierPowers == {-60, -41, -40, -39, -21, -20, -19, 0}
ClassifierBandwidths == {999, 1000, 24999, 25000, 100000, 100001, 150000, 150001}

InitClassify ==
    \E f \in ClassifierFrequencies, p \in ClassifierPowers, b \in ClassifierBandwidths :
      InitEngine([op |-> "signal", frequency |-> f, power |-> p, bandwidth |-> b])

\* interference_type = self._classify_interference_fast(freq, power)
ClassifyFast ==
    /\ call.op = "signal"
    /\ call' = [op |-> "_classify_interference_fast", frequency |-> call.frequency,
                power |-> call.power, bandwidth |-> call.bandwidth,
                type |-> _classify_interference_fast(call.frequency, call.power)]
    /\ UNCHANGED coordinator

\* interference_type = self._classify_interference(power, bandwidth, freq)
ClassifyDetailed ==
    /\ call.op = "signal"
    /\ call' = [op |-> "_classify_interference", frequency |-> call.frequency,
                power |-> call.power, bandwidth |-> call.bandwidth,
                type |-> _classify_interference(app, call.power, call.bandwidth, call.frequency)]
    /\ UNCHANGED coordinator

NextClassify ==
    \/ ClassifyFast
    \/ ClassifyDetailed

SpecClassify == InitClassify /\ [][NextClassify]_vars

\* ------------------------------------------------- thresholds and confidence
\* spectrogram_db in whole dB, one number per cell, frequency-major (cell
\* (f_idx, t_idx) of `bins` x `frames` is at (f_idx - 1) * frames + t_idx).
\* numpy's float64 statistics of the cells are kept to 1/100 dB here and a
\* confidence to 1/1000.

\* 10 * np.log10(0 + 1e-10): the dB value of a cell without power
ZeroPower == -100
\* np.clip(..., -100, 50) on the real path (nothing is below -100)
ClipMax == 50
clip(db) == [k \in 1..Len(db) |-> Min(db[k], ClipMax)]

RECURSIVE sum_between(_, _, _)
sum_between(xs, lo, hi) ==
    IF lo > hi THEN 0
    ELSE IF lo = hi THEN xs[lo]
    ELSE sum_between(xs, lo, (lo + hi) \div 2) + sum_between(xs, ((lo + hi) \div 2) + 1, hi)
sum(xs) == sum_between(xs, 1, Len(xs))

\* the largest s in lo..hi with s * s <= v
RECURSIVE sqrt_between(_, _, _)
sqrt_between(v, lo, hi) ==
    IF lo = hi THEN lo
    ELSE LET mid == (lo + hi + 1) \div 2
         IN  IF mid * mid <= v THEN sqrt_between(v, mid, hi) ELSE sqrt_between(v, lo, mid - 1)
sqrt(v) == sqrt_between(v, 0, 40000)

\* np.mean, np.std (mean of the squared deviations from the mean) and
\* np.median (the middle value, or the mean of the two middle values) of a
\* non-empty array, in 1/100 dB
mean(db) == (100 * sum(db)) \div Len(db)
std(db) ==
    LET n == Len(db)
        m == mean(db)
        squares == SubSeq([k \in 1..n |-> (100 * db[k] - m) * (100 * db[k] - m)], 1, n)
    IN  sqrt(sum(squares) \div n)
kth(db, k) ==
    CHOOSE v \in {db[j] : j \in 1..Len(db)} :
      /\ Cardinality({j \in 1..Len(db) : db[j] < v}) < k
      /\ Cardinality({j \in 1..Len(db) : db[j] <= v}) >= k
median(db) ==
    LET n == Len(db)
    IN  IF n % 2 = 1 THEN 100 * kth(db, (n + 1) \div 2)
        ELSE 50 * (kth(db, n \div 2) + kth(db, (n \div 2) + 1))

\* threshold = median_power + 2 * std_power
threshold_fast(db) == median(db) + 2 * std(db)
\* threshold = np.mean(spectrogram_db) + 3 * np.std(spectrogram_db)
threshold_complex(db) == mean(db) + 3 * std(db)

\* `spectrogram_db > threshold`, `if power > threshold` (power in dB,
\* threshold in 1/100 dB)
aboveOrEqual(power, threshold) == 100 * power >= threshold
aboveAlways(power, threshold) == TRUE
above(power, threshold) == 100 * power > threshold

\* A float64 quotient: a number (in 1/1000), or what numpy gives for a
\* division by zero, nan for 0/0 and an infinity otherwise (a warning, no
\* exception).
Number(milli) == [kind |-> "number", milli |-> milli]
NaN == [kind |-> "nan", milli |-> 0]
Infinity(sign) == [kind |-> "inf", milli |-> sign]
true_divide(a, b) ==
    IF b # 0 THEN Number((1000 * a) \div b)
    ELSE IF a = 0 THEN NaN
    ELSE Infinity(IF a > 0 THEN 1 ELSE -1)
\* x < 1.0 and 1.0 < x; every comparison with nan is false
below_one(x) == (x.kind = "number" /\ x.milli < 1000) \/ (x.kind = "inf" /\ x.milli < 0)
over_one(x) == (x.kind = "number" /\ x.milli > 1000) \/ (x.kind = "inf" /\ x.milli > 0)

\* confidence = min((power - threshold) / std_power, 1.0): Python's min
\* returns its first argument unless the second is smaller
confidence_fast(power, threshold, std_power) ==
    LET q == true_divide(100 * power - threshold, std_power)
    IN  IF over_one(q) THEN Number(1000) ELSE q
\* confidence = min(1.0, (power - threshold) / (np.max(spectrogram_db) - threshold))
confidence_complex(power, threshold, max_power) ==
    LET q == true_divide(100 * power - threshold, 100 * max_power - threshold)
    IN  IF below_one(q) THEN q ELSE Number(1000)

\* The axes of the model's spectrograms: bins 1000 Hz apart, frames 60 ms
\* apart (frequencies = k * sample_rate / window_size, times = k * hop_length
\* / sample_rate).
BinHz == 1000
FrameMs == 60
f_idx(s, k) == ((k - 1) \div s.frames) + 1
t_idx(s, k) == ((k - 1) % s.frames) + 1
column(s, db, t) == [f \in 1..s.bins |-> db[(f - 1) * s.frames + t]]
max(db) == CHOOSE v \in {db[j] : j \in 1..Len(db)} : \A j \in 1..Len(db) : db[j] <= v

\* The cells `hits` in the order of their keys (key[k] for cell k)
in_order(hits, key) ==
    LET n == Cardinality(hits)
    IN  SubSeq([r \in 1..n |->
                  CHOOSE k \in hits : Cardinality({j \in hits : key[j] < key[k]}) = r - 1], 1, n)

\* The real scan: np.where(spectrogram_db > threshold) lists the cells
\* frequency-major; each becomes a detection (of which the loop takes every
\* 5th, see `sampled`).
peaks_fast(s) ==
    IF Len(s.db) = 0 THEN <<>>
    ELSE LET db == clip(s.db)
             std_power == std(db)
             threshold == threshold_fast(db)
             hits == {k \in 1..Len(db) : above(db[k], threshold)}
             order == in_order(hits, [k \in 1..Len(db) |-> k])
         IN  [r \in 1..Len(order) |->
                [timestamp |-> (t_idx(s, order[r]) - 1) * FrameMs,
                 frequency |-> (f_idx(s, order[r]) - 1) * BinHz,
                 power_level |-> db[order[r]],
                 bandwidth |-> BinHz,
                 confidence |-> confidence_fast(db[order[r]], threshold, std_power),
                 type |-> _classify_interference_fast(((f_idx(s, order[r]) - 1) * BinHz) \div 1000,
                                                      db[order[r]])]]

\* The complex scan: for every time, for every frequency, `if power >
\* threshold`.  With no window at all the mean is nan and no cell is
\* visited.
peaks_complex(a, s) ==
    IF Len(s.db) = 0 THEN <<>>
    ELSE LET db == s.db
             threshold == threshold_complex(db)
             frequencies == frequency_axis(s.bins, BinHz)
             hits == {k \in 1..Len(db) : above(db[k], threshold)}
             order == in_order(hits, [k \in 1..Len(db) |-> t_idx(s, k) * s.bins + f_idx(s, k)])
             bandwidth(k) == _estimate_bandwidth(a, column(s, db, t_idx(s, k)), f_idx(s, k), frequencies)
         IN  [r \in 1..Len(order) |->
                [timestamp |-> (t_idx(s, order[r]) - 1) * FrameMs,
                 frequency |-> frequencies[f_idx(s, order[r])],
                 power_level |-> db[order[r]],
                 bandwidth |-> bandwidth(order[r]),
                 confidence |-> confidence_complex(db[order[r]], threshold, max(db)),
                 type |-> _classify_interference(a, db[order[r]], bandwidth(order[r]),
                                                 frequencies[f_idx(s, order[r])] \div 1000)]]

\* The model's spectrograms: a floor with at most MaxPeaks cells above it,
\* in two shapes, flat ones at several levels (60 dB is clipped on the real
\* path), and the one without any frame.
MaxPeaks == 2
Shapes == {<<2, 2>>, <<6, 4>>}
FloorPowers == {ZeroPower, -60}
PeakPowers == {-10, 0}
FlatPowers == {ZeroPower, -60, 0, 60}
with_peaks(n, floor, at) == [k \in 1..n |-> IF k \in DOMAIN at THEN at[k] ELSE floor]
PeakPlacements(n) ==
    UNION {[cells -> PeakPowers] : cells \in {c \in SUBSET (1..n) : Cardinality(c) <= MaxPeaks}}
Spectrograms ==
    {[bins |-> shape[1], frames |-> shape[2], db |-> with_peaks(shape[1] * shape[2], floor, at)] :
       shape \in Shapes, floor \in FloorPowers \cup FlatPowers,
       at \in UNION {PeakPlacements(sh[1] * sh[2]) : sh \in Shapes}}
      \cup {[bins |-> 6, frames |-> 0, db |-> <<>>]}

InitSpectrogram ==
    \E path \in {"real", "complex"}, s \in Spectrograms :
      InitEngine([op |-> "spectrogram", path |-> path, spectrogram |-> s])

\* _detect_rfi_patterns_fast from the spectrogram on; one call of the
\* classifier for every detection appended
ScanFast ==
    /\ call.op = "spectrogram"
    /\ call.path = "real"
    /\ LET result == _detect_rfi_patterns_fast(app, peaks_fast(call.spectrogram))
       IN  call' = [op |-> "scanned", path |-> call.path, spectrogram |-> call.spectrogram,
                    classified |-> Len(result.appended), detections |-> result.detections]
    /\ UNCHANGED coordinator

\* _detect_rfi_patterns_complex from the spectrogram on
ScanComplex ==
    /\ call.op = "spectrogram"
    /\ call.path = "complex"
    /\ LET result == _detect_rfi_patterns_complex(app, peaks_complex(app, call.spectrogram))
       IN  call' = [op |-> "scanned", path |-> call.path, spectrogram |-> call.spectrogram,
                    classified |-> Len(result.appended), detections |-> result.detections]
    /\ UNCHANGED coordinator

NextSpectrogram ==
    \/ ScanFast
    \/ ScanComplex

SpecSpectrogram == InitSpectrogram /\ [][NextSpectrogram]_vars

\* ------------------------------------------------------- loading and framing
\* recording.sample_rate is a nullable column: {} is None, {v} the value v.
\* `recording.sample_rate or 2048000`: None and 0 give the default.
DefaultSampleRate == 2048000
or_default(sample_rate) ==
    IF sample_rate = {} \/ sample_rate = {0} THEN DefaultSampleRate
    ELSE CHOOSE v \in sample_rate : TRUE

\* max_samples = sample_rate * 30; audio_data = audio_data[:max_samples]
MaxSeconds == 30
truncated(samples, sample_rate) == Min(samples, sample_rate * MaxSeconds)
\* np.fromfile(..., count=min(sample_count, 1000000))
MaxRawSamples == 1000000

\* hop_length = window_size // 4
hop_length(window) == window \div 4
\* scipy.signal.spectrogram(audio_data, nperseg=window_size,
\* noverlap=hop_length): consecutive segments start nperseg - noverlap
\* samples apart and there are (N - noverlap) // (nperseg - noverlap) of
\* them; nperseg = 0 raises ValueError.
segment_step(nperseg, noverlap) == nperseg - noverlap
segments(samples, nperseg, noverlap) == (samples - noverlap) \div segment_step(nperseg, noverlap)

\* window_size = 4096 on the complex path, and
\* num_windows = (len(complex_data) - window_size) // hop_length + 1;
\* np.zeros raises ValueError for a negative num_windows
ComplexWindow == 4096
num_windows(samples) == ((samples - ComplexWindow) \div hop_length(ComplexWindow)) + 1

\* _analyze_audio_file on a .wav file up to the spectrogram: the sample rate
\* of the file is written to the recording before the detection; an error
\* while reading is logged and nothing is written.
analyze_wav(file, recording_sample_rate) ==
    IF ~file.readable
    THEN [path |-> "real", raised |-> TRUE, recording_sample_rate |-> recording_sample_rate,
          sample_rate |-> 0, samples |-> 0, window |-> 0, step |-> 0, frames |-> 0]
    ELSE LET n == truncated(file.samples, file.rate)
             w == window_size(n)
         IN  [path |-> "real", raised |-> w = 0, recording_sample_rate |-> {file.rate},
              sample_rate |-> file.rate, samples |-> n, window |-> w,
              step |-> IF w = 0 THEN 0 ELSE segment_step(w, hop_length(w)),
              frames |-> IF w = 0 THEN 0 ELSE segments(n, w, hop_length(w))]

\* _analyze_raw_data up to the spectrogram: sample_rate is a local name,
\* the recording is only read.
_analyze_raw_data(file, recording_sample_rate) ==
    IF ~file.readable
    THEN [path |-> "complex", raised |-> TRUE, recording_sample_rate |-> recording_sample_rate,
          sample_rate |-> 0, samples |-> 0, window |-> 0, step |-> 0, frames |-> 0]
    ELSE LET n == Min(file.samples, MaxRawSamples)
         IN  [path |-> "complex", raised |-> num_windows(n) < 0,
              recording_sample_rate |-> recording_sample_rate,
              sample_rate |-> or_default(recording_sample_rate), samples |-> n,
              window |-> ComplexWindow, step |-> hop_length(ComplexWindow),
              frames |-> Max(num_windows(n), 0)]

\* Files: .wav files with the rate of their header, other files read as
\* complex64 samples; recordings with and without a sample rate.
WavRates == {8000, 44100}
WavSamples ==
    {0, 3, 4, 7, 8, 16, 100, 4096, 8191, 8192, 8193, 10000, 20000}
      \cup {MaxSeconds * r + d : r \in WavRates, d \in {0, 1}}
RawSamples ==
    {0, 3071, 3072, 4095, 4096, 5119, 5120, 8192, MaxRawSamples, MaxRawSamples + 1}
RecordingRates == {{}, {0}, {48000}, {DefaultSampleRate}}
Files ==
    {[wav |-> TRUE, readable |-> ok, rate |-> r, samples |-> n] :
       ok \in BOOLEAN, r \in WavRates, n \in WavSamples}
      \cup {[wav |-> FALSE, readable |-> ok, rate |-> 0, samples |-> n] :
              ok \in BOOLEAN, n \in RawSamples}

InitAdapter ==
    \E file \in Files, rate \in RecordingRates :
      InitEngine([op |-> "file", file |-> file, recording_sample_rate |-> rate])

\* if file_path.lower().endswith('.wav'): ...
AnalyzeWav ==
    /\ call.op = "file"
    /\ call.file.wav
    /\ call' = [op |-> "analyzed", file |-> call.file, before |-> call.recording_sample_rate,
                result |-> analyze_wav(call.file, call.recording_sample_rate)]
    /\ UNCHANGED coordinator

\* else: return self._analyze_raw_data(file_path, recording)
AnalyzeRaw ==
    /\ call.op = "file"
    /\ ~call.file.wav
    /\ call' = [op |-> "analyzed", file |-> call.file, before |-> call.recording_sample_rate,
                result |-> _analyze_raw_data(call.file, call.recording_sample_rate)]
    /\ UNCHANGED coordinator

NextAdapter ==
    \/ AnalyzeWav
    \/ AnalyzeRaw

SpecAdapter == InitAdapter /\ [][NextAdapter]_vars

\* --------------------------------------------------- the directory monitor
\* file_monitor.py (root application).  Every call of process_new_file runs
\* on a threading.Timer thread of its own; `call` holds the timers started
\* so far and the file_hash column of the Recording rows.
WatchedFiles == {1, 2}
\* calculate_file_hash: SHA-256 of the content; the two files differ
file_hash(file) == file
Sources == {"on_created", "process_existing_files"}
nTimers == Len(call.timers)

InitMonitor ==
    /\ InitEngine([op |-> "monitor", timers |-> <<>>, hashes |-> [r \in RecIds |-> 0]])
    /\ app = "root"

\* threading.Timer(..., self.process_new_file, args=[file_path]).start():
\* the observer reports the creation of a file once, the startup scan meets
\* it once.
StartTimer(source, file) ==
    /\ call.op = "monitor"
    /\ nTimers < MaxRuns
    /\ \A t \in 1..nTimers : ~(call.timers[t].source = source /\ call.timers[t].file = file)
    /\ call' = [call EXCEPT !.timers = Append(@, [source |-> source, file |-> file,
                                                   pc |-> "timer", rec |-> 0])]
    /\ UNCHANGED coordinator

on_created == \E file \in WatchedFiles : StartTimer("on_created", file)
process_existing_files == \E file \in WatchedFiles : StartTimer("process_existing_files", file)

\* The timer fires: os.path.exists, the hash, and
\* existing = Recording.query.filter_by(file_hash=file_hash).first();
\* `if existing: return`
CheckExisting(t) ==
    /\ call.op = "monitor"
    /\ call.timers[t].pc = "timer"
    /\ \E exists \in BOOLEAN :
         LET existing == \E r \in RecIds :
                           recs[r].exists /\ call.hashes[r] = file_hash(call.timers[t].file)
         IN  call' = [call EXCEPT !.timers[t].pc =
                        IF exists /\ ~existing THEN "add_recording" ELSE "return"]
    /\ UNCHANGED coordinator

\* recording = Recording(..., file_hash=file_hash, processed=False);
\* db.session.add(recording); db.session.commit()
AddRecording(t) ==
    /\ call.op = "monitor"
    /\ call.timers[t].pc = "add_recording"
    /\ nRecs < MaxRuns
    /\ \E readable \in BOOLEAN :
         recs' = [recs EXCEPT ![nRecs + 1] = [exists |-> TRUE, readable |-> readable,
                                              processed |-> FALSE, rfi_detected |-> FALSE]]
    /\ call' = [call EXCEPT !.hashes[nRecs + 1] = file_hash(call.timers[t].file),
                            !.timers[t].rec = nRecs + 1,
                            !.timers[t].pc = "add_queue_item"]
    /\ UNCHANGED <<app, queue, dets, runs, lock, events, propagated>>

\* queue_item = ProcessingQueue(recording_id=recording.id, status='pending');
\* db.session.add(queue_item); db.session.commit()
AddQueueItem(t) ==
    /\ call.op = "monitor"
    /\ call.timers[t].pc = "add_queue_item"
    /\ queue' = [queue EXCEPT ![call.timers[t].rec] =
                   [status |-> "pending", error |-> FALSE, completed_at |-> FALSE]]
    /\ call' = [call EXCEPT !.timers[t].pc = "enqueue"]
    /\ UNCHANGED <<app, recs, dets, runs, lock, events, propagated>>

\* detector = RFIDetector(); detector.process_recording_async(recording.id)
StartProcessing(t) ==
    /\ call.op = "monitor"
    /\ call.timers[t].pc = "enqueue"
    /\ nRuns < MaxRuns
    /\ runs' = process_recording_async("file", call.timers[t].rec, "process_new_file")
    /\ call' = [call EXCEPT !.timers[t].pc = "return"]
    /\ UNCHANGED <<app, recs, queue, dets, lock, events, propagated>>

NextMonitor ==
    \/ on_created
    \/ process_existing_files
    \/ \E t \in 1..nTimers : CheckExisting(t)
    \/ \E t \in 1..nTimers : AddRecording(t)
    \/ \E t \in 1..nTimers : AddQueueItem(t)
    \/ \E t \in 1..nTimers : StartProcessing(t)

SpecMonitor == InitMonitor /\ [][NextMonitor]_vars

\* ================================================================ claims
Terminal == {"Completed", "Failed"}
Last(s) == s[Len(s)]
Occurrences(s, name) == Cardinality({k \in 1..Len(s) : s[k] = name})

\* The run's work is over: it is about to leave the `with` block.
Ending(i) == runs[i].pc \in {"return", "raise"}

\* The moves of a job's status the lifecycle allows (a row is created pending).
C1_Moves ==
    {<<"none", "pending">>, <<"pending", "processing">>,
     <<"processing", "completed">>, <<"processing", "failed">>}

\* C1: a job's status only ever moves pending -> processing -> completed or
\* pending -> processing -> failed; completed and failed are never left.
C1_StatusMovesForward ==
    [][\A r \in RecIds :
         queue'[r].status # queue[r].status
           => <<queue[r].status, queue'[r].status>> \in C1_Moves]_vars

\* Run i is between acquiring its processing_lock and its terminal transition.
C2_Analyzing(i) == runs[i].pc \in {"start", "emit_started", "analyze", "save", "handler"}

\* C2: at most one run is between acquiring a processing_lock and its
\* terminal transition, over all detectors of the process.
C2_OneRunAtATime == Cardinality({i \in RunIds : C2_Analyzing(i)}) <= 1

\* C3: a run whose recording's file could not be read or parsed ends with the
\* job failed and nothing saved, and (where events are emitted) the
\* collaborator has received one Started, one Failed and no Completed.
C3_UnreadableFails ==
    \A i \in RunIds :
      Ending(i) /\ runs[i].loadErr
        => /\ queue[runs[i].rec].status = "failed"
           /\ dets[i] = 0
           /\ HasEmits(app) => /\ Occurrences(events[runs[i].rec], "Started") = 1
                               /\ Occurrences(events[runs[i].rec], "Failed") = 1
                               /\ Occurrences(events[runs[i].rec], "Completed") = 0

\* C4: a run whose detection stage raised after it had produced candidates
\* ends with the job failed and none of the candidates persisted.
C4_DetectionErrorFails ==
    \A i \in RunIds :
      Ending(i) /\ runs[i].detErr /\ runs[i].n > 0
        => /\ runs[i].outcome = "failed"
           /\ queue[runs[i].rec].status = "failed"
           /\ dets[i] = 0

\* C5: a run that has set its job to failed has none of its detections in
\* the RFIDetection table.
C5_FailedPersistsNothing ==
    \A i \in RunIds : runs[i].outcome = "failed" => dets[i] = 0

\* C6: a run in which nothing but socketio.emit raised ends with its job
\* completed and every detection of the analysis persisted.
C6_EmitFailureIsHarmless ==
    \A i \in RunIds :
      Ending(i) /\ runs[i].exc # "not_found"
        => /\ runs[i].outcome = "completed"
           /\ runs[i].queue_item => queue[runs[i].rec].status = "completed"
           /\ dets[i] = runs[i].n

\* One Started first, no second Started, a terminal event only at the end.
C7_Ordered(s) ==
    s # <<>> =>
      /\ s[1] = "Started"
      /\ \A k \in 2..Len(s) : s[k] # "Started"
      /\ \A k \in 1..Len(s) : s[k] \in Terminal => k = Len(s)

\* C7: the events received for a recording are one Started, then Progress
\* events, then at most one terminal event, and nothing after it.
C7_EventsOrdered == \A r \in RecIds : C7_Ordered(events[r])

\* Recording a's Started has been received, its terminal event has not, and
\* its run is still to emit it.
C8_Open(a) ==
    /\ events[a] # <<>>
    /\ events[a][1] = "Started"
    /\ Last(events[a]) \notin Terminal
    /\ \E i \in RunIds : runs[i].rec = a /\ runs[i].pc \in {"analyze", "save", "emit_completed"}

\* C8: while recording a is between its Started event and its terminal
\* event, no Progress or Completed event of another recording b is received.
C8_NoInterleaving ==
    [][\A a, b \in RecIds :
         a # b /\ C8_Open(a) /\ events'[b] # events[b]
           => Last(events'[b]) \notin {"Progress", "Completed"}]_vars

\* C9: a processing_lock is held only by a run that is inside its `with`
\* block: once a run has ended, however it ended, its detector's lock is free
\* of it, and a run waiting for a detector none of whose runs is inside can
\* acquire the lock.
C9_LockReleasedOnEveryExit ==
    /\ \A l \in Instances :
         lock[l] # 0 => runs[lock[l]].pc \in InsidePcs /\ runs[lock[l]].inst = l
    /\ \A i \in RunIds :
         /\ runs[i].pc = "lock"
         /\ \A j \in RunIds : runs[j].inst = runs[i].inst => runs[j].pc \notin InsidePcs
         => ENABLED Acquire(i)

\* A run ended by an exception raised in its failure handler, and a later
\* run of the same detector holds the lock.
C9_Witness ==
    \E i, j \in RunIds :
      /\ runs[i].pc = "crashed"
      /\ runs[j].inst = runs[i].inst
      /\ lock[runs[j].inst] = j
      /\ runs[j].pc \in InsidePcs

\* A caller waits while a run it executes itself has not ended.
Blocked(c) == \E i \in RunIds : runs[i].ctx = c /\ runs[i].pc \notin {"none"} \cup EndedPcs

\* C10: no caller of process_recording_async waits for the lock or for a
\* run, and no exception of a run reaches a caller.
C10_CallerNeverWaits ==
    /\ \A c \in Callers : ~Blocked(c)
    /\ propagated = {}

\* A caller has returned from enqueuing run j, which waits for the lock that
\* run i holds while an exception is leaving run i.
C10_Witness ==
    \E i, j \in RunIds :
      /\ runs[i].pc = "raise"
      /\ lock[runs[i].inst] = i
      /\ runs[j].pc = "lock"
      /\ runs[j].inst = runs[i].inst

C12_Commits(i) == runs[i].pc = "save" /\ runs'[i].pc \in {"emit_completed", "return"}

\* C12: the commit that ends a successful run persists, in one step, every
\* detection the analysis returned, sets processed and rfi_detected = (number
\* of detections > 0) on the recording and sets the job completed with a
\* completion time; the Completed event that follows carries the number of
\* persisted detections.
C12_SuccessIsAtomic ==
    [][\A i \in RunIds :
         LET r == runs[i].rec
         IN  /\ C12_Commits(i)
                  => /\ dets[i] = 0
                     /\ dets'[i] = runs[i].n
                     /\ recs'[r].processed
                     /\ recs'[r].rfi_detected = (runs[i].n > 0)
                     /\ queue'[r].status = "completed"
                     /\ queue'[r].completed_at
             /\ runs[i].pc = "emit_completed" /\ events'[r] # events[r]
                  => /\ Last(events'[r]) = "Completed"
                     /\ processing_completed(runs[i]).detections_found = dets[i]
             /\ dets'[i] # dets[i] /\ runs'[i].outcome = "completed" => C12_Commits(i)]_vars

\* A run that found detections is past its commit and its Completed event.
C12_Witness ==
    \E i \in RunIds :
      /\ runs[i].pc = "return"
      /\ runs[i].outcome = "completed"
      /\ dets[i] = MaxDetections
      /\ recs[runs[i].rec].rfi_detected
      /\ events[runs[i].rec] # <<>>
      /\ Last(events[runs[i].rec]) = "Completed"

\* C13: a run for an id no recording exists for ends with the queue row (if
\* there is one) failed, with an error message and a completion time, with
\* no detection persisted and no recording changed.
C13_MissingRecordingFails ==
    \A i \in RunIds :
      Ending(i)
        => /\ queue[runs[i].rec].status # "none"
                => /\ queue[runs[i].rec].status = "failed"
                   /\ queue[runs[i].rec].error
                   /\ queue[runs[i].rec].completed_at
           /\ dets[i] = 0
           /\ recs = [r \in RecIds |-> NoRecording]

\* A run found the queue row, did not find the recording, and is done with
\* its except handler.
C13_Witness ==
    \E i \in RunIds :
      /\ Ending(i)
      /\ runs[i].exc = "not_found"
      /\ runs[i].queue_item
      /\ queue[runs[i].rec].status = "failed"

\* C14: under fair scheduling of the threads every submitted run ends, every
\* pending job enters processing, and every job in processing becomes
\* completed or failed.
C14_EveryRunEnds ==
    /\ \A i \in RunIds : (runs[i].pc = "lock") ~> (runs[i].pc \in EndedPcs)
    /\ \A r \in RecIds : (queue[r].status = "pending") ~> (queue[r].status = "processing")
    /\ \A r \in RecIds :
         (queue[r].status = "processing") ~> (queue[r].status \in {"completed", "failed"})

\* A thread was ended by an exception, its job is failed, and another run
\* still waits for its lock behind a run that holds it.
C14_Witness ==
    \E i, j \in RunIds :
      /\ runs[i].pc = "crashed"
      /\ queue[runs[i].rec].status = "failed"
      /\ runs[j].pc \in InsidePcs
      /\ queue[runs[j].rec].status = "processing"

\* The frequency threshold the two detection paths are said to filter with.
C15_PathThreshold(path) == IF path = "real" THEN 1000 ELSE 10000

\* C15: the deduplicator's output holds no two detections less than 0.1 s
\* and less than the path's frequency threshold apart (1000 Hz on the real
\* path, 10000 Hz on the complex path).
C15_NoNearDuplicates ==
    call.op = "filtered" =>
      \A path \in {"real", "complex"} :
        \A j, k \in 1..Len(call.filtered) :
          j # k => ~ /\ Abs(call.filtered[j].timestamp - call.filtered[k].timestamp) < 100
                     /\ Abs(call.filtered[j].frequency - call.filtered[k].frequency)
                          < C15_PathThreshold(path)

\* C16: _filter_nearby_detections applied to its own result returns the same
\* detections in the same order.
C16_Idempotent == call.op = "refiltered" => call.refiltered = call.filtered

\* The function was applied to its own result after an application that
\* stopped at the limit of 50 with detections left over.
C16_Witness ==
    /\ call.op = "refiltered"
    /\ Len(call.detections) > MaxFiltered
    /\ Len(call.filtered) = MaxFiltered
    /\ \E j, k \in 1..Len(call.filtered) :
         j # k /\ call.filtered[j].power_level = call.filtered[k].power_level

Range(xs) == {xs[j] : j \in 1..Len(xs)}

\* C17 as stated: the result holds the same detections whatever the order of
\* the input, also when detections have equal power_level.
C17_OrderIndependent ==
    call.op = "reordered" => Range(call.filtered_reordered) = Range(call.filtered)

\* No two detections of the list have the same power_level.
C17_DistinctPower(xs) ==
    \A j, k \in 1..Len(xs) : j # k => xs[j].power_level # xs[k].power_level

\* C17 as amended: for a list whose detections have pairwise different
\* power_level, the result is the same list whatever the order of the input.
C17_OrderIndependentDistinctPower ==
    call.op = "reordered" /\ C17_DistinctPower(call.detections)
      => call.filtered_reordered = call.filtered

\* Three detections of different power in another order than they came in,
\* of which the deduplicator dropped one; and a long list reversed, cut at
\* the limit.
C17_Witness ==
    /\ call.op = "reordered"
    /\ C17_DistinctPower(call.detections)
    /\ call.reordered # call.detections
    /\ \/ Len(call.detections) = 3 /\ Len(call.filtered) = 2
       \/ Len(call.detections) > MaxFiltered

\* How many detections of the list are at least as strong as v.
C18_AtLeast(xs, v) == Cardinality({j \in 1..Len(xs) : xs[j].power_level >= v})

\* C18: on the real path at most 100 candidates are handed to the
\* deduplicator, the strongest 100 when more were appended, and at most 50
\* detections are returned.
C18_RealPathLimits ==
    call.op = "_detect_rfi_patterns_fast" =>
      LET r == call.result
      IN  /\ Len(r.candidates) <= 100
          /\ Len(r.appended) > 100 =>
               /\ Len(r.candidates) = 100
               /\ Range(r.candidates) \subseteq Range(r.appended)
               /\ \A j \in 1..Len(r.appended) :
                    LET v == r.appended[j].power_level
                    IN  C18_AtLeast(r.candidates, v) = Min(100, C18_AtLeast(r.appended, v))
          /\ Len(r.detections) <= 50

\* C19: on the complex path, with at least 200 cells above the threshold,
\* the candidates handed to the deduplicator are the first 200 of them in
\* scan order.
C19_ScanStopsAt200 ==
    call.op = "_detect_rfi_patterns_complex" /\ Len(call.cells) >= 200
      => call.result.candidates = SubSeq(call.cells, 1, 200)

\* C20: _estimate_bandwidth returns at least one frequency-bin width for
\* every power column and every peak index (1000 Hz for a column of a single
\* bin, where there is no bin width), and the real path's bandwidth is
\* sample_rate / window_size with window_size = min(2048, samples // 4).
C20_BandwidthAtLeastOneBin ==
    /\ call.op = "_estimate_bandwidth" =>
         IF Len(call.frequencies) > 1
         THEN call.bandwidth >= Abs(call.frequencies[2] - call.frequencies[1])
         ELSE call.bandwidth = 1000
    /\ call.op = "fast_bandwidth" =>
         /\ call.samples >= 4 * 2048 => call.bandwidth * 2048 = call.sample_rate
         /\ call.samples < 4 * 2048 => call.bandwidth * (call.samples \div 4) = call.sample_rate

\* The estimate for a peak at the first bin of a column of two bins, which
\* is one bin width.
C20_Witness ==
    /\ call.op = "_estimate_bandwidth"
    /\ Len(call.power_spectrum) = 2
    /\ call.peak_idx = 1
    /\ call.power_spectrum[2] < call.power_spectrum[1] - 6
    /\ call.bandwidth = Abs(call.frequencies[2] - call.frequencies[1])


\* C23: the fast classifier is a first-match-wins table: FM_broadcast for
\* 88-108 MHz, TV_broadcast for 174-216 MHz, UHF_TV for 470-790 MHz,
\* WiFi_ISM for 2400-2500 MHz (bounds included) whatever the power, and
\* otherwise strong_local above -20 dB, moderate above -40 dB, weak_signal
\* else.
C23_Band(f, lo, hi) == lo * 1000 <= f /\ f <= hi * 1000
C23_InABand(f) ==
    C23_Band(f, 88, 108) \/ C23_Band(f, 174, 216) \/ C23_Band(f, 470, 790) \/ C23_Band(f, 2400, 2500)
C23_FastTable ==
    call.op = "_classify_interference_fast" =>
      /\ C23_Band(call.frequency, 88, 108) => call.type = "FM_broadcast"
      /\ C23_Band(call.frequency, 174, 216) => call.type = "TV_broadcast"
      /\ C23_Band(call.frequency, 470, 790) => call.type = "UHF_TV"
      /\ C23_Band(call.frequency, 2400, 2500) => call.type = "WiFi_ISM"
      /\ ~C23_InABand(call.frequency) /\ call.power > -20 => call.type = "strong_local"
      /\ ~C23_InABand(call.frequency) /\ call.power <= -20 /\ call.power > -40 => call.type = "moderate"
      /\ ~C23_InABand(call.frequency) /\ call.power <= -40 => call.type = "weak_signal"

\* A strong signal at exactly 108 MHz, classified by its band.
C23_Witness ==
    /\ call.op = "_classify_interference_fast"
    /\ call.frequency = 108000
    /\ call.power = 0
    /\ call.type = "FM_broadcast"

\* C24: the detailed classifier used with the complex path is the
\* first-match-wins table: bandwidth > 100 kHz broadband; else bandwidth
\* < 1 kHz narrowband; else power > -40 dB strong_interference; else
\* 88-108 MHz fm_broadcast; else 535-1705 kHz am_broadcast; else
\* 2400-2500 MHz (bounds included) wifi; else unknown.
C24_Table(power, bandwidth, frequency) ==
    IF bandwidth > 100000 THEN "broadband"
    ELSE IF bandwidth < 1000 THEN "narrowband"
    ELSE IF power > -40 THEN "strong_interference"
    ELSE IF C23_Band(frequency, 88, 108) THEN "fm_broadcast"
    ELSE IF 535 <= frequency /\ frequency <= 1705 THEN "am_broadcast"
    ELSE IF C23_Band(frequency, 2400, 2500) THEN "wifi"
    ELSE "unknown"
C24_DetailedTable ==
    call.op = "_classify_interference" =>
      call.type = C24_Table(call.power, call.bandwidth, call.frequency)


\* C21: every emitted detection has a confidence in [0, 1] on both paths,
\* and a flat spectrogram never gives a division by zero, a nan confidence
\* or an error: no detection is emitted for it, or one of confidence 0.
C21_Flat(s) == \A j, k \in 1..Len(s.db) : s.db[j] = s.db[k]
C21_ConfidenceInRange ==
    call.op = "scanned" =>
      /\ \A j \in 1..Len(call.detections) :
           /\ call.detections[j].confidence.kind = "number"
           /\ call.detections[j].confidence.milli >= 0
           /\ call.detections[j].confidence.milli <= 1000
      /\ C21_Flat(call.spectrogram) =>
           \A j \in 1..Len(call.detections) : call.detections[j].confidence.milli = 0

\* A detection of the real path whose confidence is neither 0 nor capped.
C21_Witness ==
    /\ call.op = "scanned"
    /\ call.path = "real"
    /\ \E j \in 1..Len(call.detections) :
         /\ call.detections[j].confidence.milli > 0
         /\ call.detections[j].confidence.milli < 1000

\* C22: for a buffer of all-zero samples (every cell of the spectrogram
\* without power) detection returns an empty list and the classifier is
\* never invoked.
C22_AllZero(s) == \A k \in 1..Len(s.db) : s.db[k] = -100
C22_SilenceDetectsNothing ==
    call.op = "scanned" /\ C22_AllZero(call.spectrogram) =>
      call.detections = <<>> /\ call.classified = 0

\* The scan of a spectrogram of 24 cells without power.
C22_Witness ==
    /\ call.op = "scanned"
    /\ Len(call.spectrogram.db) = 24
    /\ C22_AllZero(call.spectrogram)
    /\ call.detections = <<>>


\* C25: when a raw recording has no known sample rate, it is analyzed at
\* 2,048,000 Hz and that default is written to the recording: after the
\* run recording.sample_rate is 2048000 instead of unset.
C25_DefaultRateRecorded ==
    call.op = "analyzed" /\ ~call.file.wav /\ call.file.readable /\ call.before = {} =>
      /\ call.result.sample_rate = 2048000
      /\ call.result.recording_sample_rate = {2048000}

\* C26: on the real path with N samples the window is min(2048, N div 4),
\* consecutive frames start window/4 samples apart, and there are
\* floor((N - window) / (window/4)) + 1 frames.
C26_Framing ==
    call.op = "analyzed" /\ call.file.wav /\ call.result.window >= 4 =>
      /\ call.result.window = Min(2048, call.result.samples \div 4)
      /\ call.result.step = call.result.window \div 4
      /\ call.result.frames =
           ((call.result.samples - call.result.window) \div (call.result.window \div 4)) + 1


\* C27: the deduplicator keeps the strongest detection of every cluster:
\* its output is ordered by power_level descending, the strongest detection
\* of the input is in the output, and every detection that is dropped (other
\* than by the limit of 50) is within 0.1 s and within the frequency
\* threshold of an accepted detection at least as strong.
C27_Covers(kept, dropped) ==
    /\ Abs(dropped.timestamp - kept.timestamp) < 100
    /\ Abs(dropped.frequency - kept.frequency) < freq_threshold(app)
    /\ kept.power_level >= dropped.power_level
C27_KeepsStrongest ==
    call.op = "filtered" =>
      /\ Range(call.filtered) \subseteq Range(call.detections)
      /\ \A j \in 1..(Len(call.filtered) - 1) :
           call.filtered[j].power_level >= call.filtered[j + 1].power_level
      /\ call.detections # <<>> =>
           \E y \in Range(call.filtered) :
             \A x \in Range(call.detections) : y.power_level >= x.power_level
      /\ \A x \in Range(call.detections) :
           x \notin Range(call.filtered) =>
             \/ Len(call.filtered) = 50
             \/ \E y \in Range(call.filtered) : C27_Covers(y, x)

\* Three detections of which the weakest is dropped for a stronger one next
\* to it and the other two are kept.
C27_Witness ==
    /\ call.op = "filtered"
    /\ Len(call.detections) = 3
    /\ Len(call.filtered) = 2
    /\ \E x \in Range(call.detections) :
         /\ x \notin Range(call.filtered)
         /\ \A y \in Range(call.filtered) : y.power_level > x.power_level


\* C28: for a single RFIDetector instance at most one queue row has status
\* 'processing', and a row has status 'processing' only while some thread
\* holds the lock of its instance for that recording.
C28_Holds(i, r) ==
    /\ runs[i].rec = r
    /\ runs[i].pc \notin {"none", "lock", "done", "crashed"}
    /\ lock[runs[i].inst] = i
C28_OneInstance ==
    \A i, j \in RunIds : runs[i].pc # "none" /\ runs[j].pc # "none" => runs[i].inst = runs[j].inst
C28_OneProcessingRowPerInstance ==
    /\ \A r \in RecIds : queue[r].status = "processing" => \E i \in RunIds : C28_Holds(i, r)
    /\ C28_OneInstance => Cardinality({r \in RecIds : queue[r].status = "processing"}) <= 1

\* Two runs on one instance: one holds the lock with its row 'processing',
\* the other waits for the lock with its row still 'pending'.
C28_Witness ==
    \E i, j \in RunIds :
      /\ i # j
      /\ runs[i].inst = runs[j].inst
      /\ C28_Holds(i, runs[i].rec)
      /\ queue[runs[i].rec].status = "processing"
      /\ runs[j].pc = "lock"
      /\ queue[runs[j].rec].status = "pending"


\* C29: job status and recording flags are consistent in every committed
\* state: a recording has processed = true if and only if its job is
\* completed, and a recording whose job is failed has processed = false,
\* rfi_detected = false and no persisted detections.
C29_StatusAndFlagsAgree ==
    \A r \in RecIds :
      recs[r].exists =>
        /\ recs[r].processed <=> queue[r].status = "completed"
        /\ queue[r].status = "failed" =>
             /\ ~recs[r].processed
             /\ ~recs[r].rfi_detected
             /\ \A i \in RunIds : runs[i].rec = r => dets[i] = 0


\* C30: in the directory monitor a file with a given content hash yields at
\* most one Recording row, one queue row and one processing run, even when
\* several timer threads call process_new_file for the same file
\* concurrently.
C30_Rows(file) == {r \in RecIds : recs[r].exists /\ call.hashes[r] = file}
C30_OneRecordingPerHash ==
    call.op = "monitor" =>
      \A file \in {1, 2} :
        /\ Cardinality(C30_Rows(file)) <= 1
        /\ Cardinality({r \in C30_Rows(file) : queue[r].status # "none"}) <= 1
        /\ Cardinality({i \in RunIds : runs[i].pc # "none" /\ runs[i].rec \in C30_Rows(file)}) <= 1
====
